---- MODULE Spec2Model ----
(***************************************************************************)
(* Model of financial_analysis_script.py: FinancialReportGenerator, its    *)
(* loader, schema normalizer, categorizer and report builder.              *)
(*                                                                         *)
(* Text is a sequence of one-character strings, so that str.upper and      *)
(* str.contains are computed character by character.  A cell of a          *)
(* DataFrame is a record [t, s, n]: t is the kind of value ("null" for     *)
(* None/NaN/NaT, "str", "num", "timestamp", "period"), s its text and n    *)
(* its number.  A DataFrame is [columns, dtypes, rows]: rows[r][i] is the  *)
(* cell of row r in column columns[i].                                     *)
(***************************************************************************)
EXTENDS Integers, Sequences, FiniteSets, TLC

VARIABLES
    disk,      \* the CSV files on disk: path -> raw file
    data,      \* self.data
    df,        \* the DataFrame handed to / returned by _standardize_columns
    raised,    \* the exception the last call propagated, or "none"
    last_call, \* the method that ran last
    file_paths,\* the argument of the last call of load_financial_data
    pc,        \* "idle" between calls, or the line load_financial_data is at
    loads,     \* the calls of load_financial_data so far
    outputs    \* the output folders written so far, oldest first

vars == <<disk, data, df, raised, last_call, file_paths, pc, loads, outputs>>

----------------------------------------------------------------------------
(* Text *)

\* a sequence with its elements worked out
Tuple(f) == SubSeq(f, 1, Len(f))

LowerChars == <<"a", "b", "c", "d", "e", "f", "g", "h", "i", "j", "k", "l", "m", "n", "o", "p", "q", "r", "s", "t", "u", "v", "w", "x", "y", "z">>
UpperChars == <<"A", "B", "C", "D", "E", "F", "G", "H", "I", "J", "K", "L", "M", "N", "O", "P", "Q", "R", "S", "T", "U", "V", "W", "X", "Y", "Z">>
Digits == <<"0", "1", "2", "3", "4", "5", "6", "7", "8", "9">>

\* the upper-case letter of each lower-case letter
UpperOf ==
    [c \in {LowerChars[i] : i \in 1..Len(LowerChars)} |->
        UpperChars[CHOOSE i \in 1..Len(LowerChars) : LowerChars[i] = c]]

\* str.upper() on one character
upper_char(c) == IF c \in DOMAIN UpperOf THEN UpperOf[c] ELSE c

\* str.upper()
str_upper(s) == Tuple([i \in 1..Len(s) |-> upper_char(s[i])])

\* re.search of a pattern without metacharacters: pat occurs in s
str_contains(s, pat) ==
    \E i \in 0..(Len(s) - Len(pat)) : \A j \in 1..Len(pat) : s[i + j] = pat[j]

\* the same under re.IGNORECASE
str_contains_nocase(s, pat) ==
    \E i \in 0..(Len(s) - Len(pat)) :
        \A j \in 1..Len(pat) : upper_char(s[i + j]) = upper_char(pat[j])

----------------------------------------------------------------------------
(* Cells and DataFrames *)

NaN == [t |-> "null", s |-> <<>>, n |-> 0]
Str(s) == [t |-> "str", s |-> s, n |-> 0]
Num(n) == [t |-> "num", s |-> <<>>, n |-> n]
Timestamp(n) == [t |-> "timestamp", s |-> <<>>, n |-> n]
Period(n) == [t |-> "period", s |-> <<>>, n |-> n]

\* self.data = None
None == [isNone |-> TRUE, columns |-> <<>>, dtypes |-> <<>>, rows |-> <<>>]

DataFrame(columns, dtypes, rows) ==
    [isNone |-> FALSE,
     columns |-> Tuple(columns),
     dtypes |-> Tuple(dtypes),
     rows |-> Tuple([r \in 1..Len(rows) |-> Tuple(rows[r])])]

NRows(t) == Len(t.rows)
HasCol(t, c) == \E i \in 1..Len(t.columns) : t.columns[i] = c
ColIndex(t, c) == CHOOSE i \in 1..Len(t.columns) : t.columns[i] = c
Cell(t, r, c) == t.rows[r][ColIndex(t, c)]
Column(t, c) == [r \in 1..NRows(t) |-> Cell(t, r, c)]
Dtype(t, c) == t.dtypes[ColIndex(t, c)]

\* df[c] = values: replaces the column c, or appends it as the last column
SetColumn(t, c, dtype, values) ==
    IF HasCol(t, c)
    THEN DataFrame(t.columns,
                   [t.dtypes EXCEPT ![ColIndex(t, c)] = dtype],
                   [r \in 1..NRows(t) |->
                       [t.rows[r] EXCEPT ![ColIndex(t, c)] = values[r]]])
    ELSE DataFrame(Append(t.columns, c),
                   Append(t.dtypes, dtype),
                   [r \in 1..NRows(t) |-> Append(t.rows[r], values[r])])

\* df.loc[mask, c] = value
SetWhere(t, c, mask, value) ==
    SetColumn(t, c, Dtype(t, c),
              [r \in 1..NRows(t) |-> IF mask[r] THEN value ELSE Cell(t, r, c)])

\* df.rename(columns={old: new})
Rename(t, old, new) ==
    DataFrame([i \in 1..Len(t.columns) |->
                  IF t.columns[i] = old THEN new ELSE t.columns[i]],
              t.dtypes, t.rows)

----------------------------------------------------------------------------
(* _create_category_mapping: the rule table in insertion order *)

Rule(keyword, category) == [keyword |-> keyword, category |-> category]

_create_category_mapping == <<
    Rule(<<"P", "L", "A", "N", "E", " ", "C", "O", "N", "N", "E", "C", "T", "I", "O", "N">>, <<"B", "u", "s", "i", "n", "e", "s", "s">>),
    Rule(<<"P", "L", "A", "N", "E", " ", "C", "O", "N", "N", "E", "C", "T", "I", "O", "N", " ", "L", "L", "C">>, <<"B", "u", "s", "i", "n", "e", "s", "s">>),
    Rule(<<"P", "L", "A", "N", "E", " ", "C", "O", "N", "N", "E", "C", "T">>, <<"B", "u", "s", "i", "n", "e", "s", "s">>),
    Rule(<<"T", "I", "T", "A", "N", " ", "A", "V", "I", "A", "T", "I", "O", "N">>, <<"B", "u", "s", "i", "n", "e", "s", "s">>),
    Rule(<<"A", "D", "P", " ", "F", "E", "E", "S">>, <<"B", "u", "s", "i", "n", "e", "s", "s">>),
    Rule(<<"P", "A", "Y", "R", "O", "L", "L">>, <<"B", "u", "s", "i", "n", "e", "s", "s">>),
    Rule(<<"L", "U", "M", "I", "S">>, <<"B", "u", "s", "i", "n", "e", "s", "s">>),
    Rule(<<"L", "U", "M", "I", "S", " ", "I", "N", "C">>, <<"B", "u", "s", "i", "n", "e", "s", "s">>),
    Rule(<<"L", "A", "W", " ", "S", "C", "H", "O", "O", "L">>, <<"L", "a", "w", " ", "S", "c", "h", "o", "o", "l">>),
    Rule(<<"B", "A", "R", "B", "R", "I">>, <<"L", "a", "w", " ", "S", "c", "h", "o", "o", "l">>),
    Rule(<<"B", "A", "R", " ", "E", "X", "A", "M">>, <<"L", "a", "w", " ", "S", "c", "h", "o", "o", "l">>),
    Rule(<<"L", "E", "G", "A", "L", " ", "E", "D", "U", "C", "A", "T", "I", "O", "N">>, <<"L", "a", "w", " ", "S", "c", "h", "o", "o", "l">>),
    Rule(<<"W", "E", "S", "T", "L", "A", "W">>, <<"L", "a", "w", " ", "S", "c", "h", "o", "o", "l">>),
    Rule(<<"L", "E", "X", "I", "S">>, <<"L", "a", "w", " ", "S", "c", "h", "o", "o", "l">>),
    Rule(<<"H", "O", "M", "E", "S", "C", "H", "O", "O", "L">>, <<"H", "o", "m", "e", "s", "c", "h", "o", "o", "l">>),
    Rule(<<"C", "U", "R", "R", "I", "C", "U", "L", "U", "M">>, <<"H", "o", "m", "e", "s", "c", "h", "o", "o", "l">>),
    Rule(<<"E", "D", "U", "C", "A", "T", "I", "O", "N", "A", "L">>, <<"H", "o", "m", "e", "s", "c", "h", "o", "o", "l">>),
    Rule(<<"B", "O", "O", "K", "S", " ", "&", " ", "S", "U", "P", "P", "L", "I", "E", "S">>, <<"H", "o", "m", "e", "s", "c", "h", "o", "o", "l">>),
    Rule(<<"A", "D", "O", "B", "E">>, <<"S", "u", "b", "s", "c", "r", "i", "p", "t", "i", "o", "n">>),
    Rule(<<"A", "M", "A", "Z", "O", "N", " ", "P", "R", "I", "M", "E">>, <<"S", "u", "b", "s", "c", "r", "i", "p", "t", "i", "o", "n">>),
    Rule(<<"N", "E", "T", "F", "L", "I", "X">>, <<"S", "u", "b", "s", "c", "r", "i", "p", "t", "i", "o", "n">>),
    Rule(<<"H", "U", "L", "U">>, <<"S", "u", "b", "s", "c", "r", "i", "p", "t", "i", "o", "n">>),
    Rule(<<"S", "P", "O", "T", "I", "F", "Y">>, <<"S", "u", "b", "s", "c", "r", "i", "p", "t", "i", "o", "n">>),
    Rule(<<"G", "R", "O", "C", "E", "R", "I", "E", "S">>, <<"P", "e", "r", "s", "o", "n", "a", "l">>),
    Rule(<<"R", "E", "S", "T", "A", "U", "R", "A", "N", "T", "S">>, <<"P", "e", "r", "s", "o", "n", "a", "l">>),
    Rule(<<"E", "N", "T", "E", "R", "T", "A", "I", "N", "M", "E", "N", "T">>, <<"P", "e", "r", "s", "o", "n", "a", "l">>),
    Rule(<<"S", "H", "O", "P", "P", "I", "N", "G">>, <<"P", "e", "r", "s", "o", "n", "a", "l">>),
    Rule(<<"U", "T", "I", "L", "I", "T", "I", "E", "S">>, <<"P", "e", "r", "s", "o", "n", "a", "l">>),
    Rule(<<"C", "R", "E", "D", "I", "T", " ", "C", "A", "R", "D", " ", "P", "A", "Y", "M", "E", "N", "T">>, <<"F", "i", "n", "a", "n", "c", "i", "a", "l">>),
    Rule(<<"T", "R", "A", "N", "S", "F", "E", "R">>, <<"F", "i", "n", "a", "n", "c", "i", "a", "l">>),
    Rule(<<"P", "A", "Y", "C", "H", "E", "C", "K">>, <<"I", "n", "c", "o", "m", "e">>),
    Rule(<<"I", "N", "T", "E", "R", "E", "S", "T", " ", "I", "N", "C", "O", "M", "E">>, <<"I", "n", "c", "o", "m", "e">>) >>

category_mapping == _create_category_mapping

----------------------------------------------------------------------------
(* _categorize_transactions *)

\* Series.str: the accessor exists for an object column whose non-null values
\* are not all numbers; any other column raises AttributeError
StrAccessorOK(t, c) ==
    /\ Dtype(t, c) = "object"
    /\ \/ \A r \in 1..NRows(t) : Cell(t, r, c).t = "null"
       \/ \E r \in 1..NRows(t) : Cell(t, r, c).t = "str"

\* Description.str.upper().str.contains(keyword, na=False) for one cell
KeywordMask(cell, keyword) ==
    cell.t = "str" /\ str_contains(str_upper(cell.s), keyword)

\* Description.str.contains('NH|NEW HAMPSHIRE', case=False, na=False)
NHMask(cell) ==
    /\ cell.t = "str"
    /\ \/ str_contains_nocase(cell.s, <<"N", "H">>)
       \/ str_contains_nocase(cell.s, <<"N", "E", "W", " ", "H", "A", "M", "P", "S", "H", "I", "R", "E">>)

\* ApplyRule as it would be if a rule only filled rows no rule had matched yet
ApplyRule_KeepEarlier(t, rule) ==
    SetWhere(t, "Category",
             [r \in 1..NRows(t) |->
                 /\ KeywordMask(Cell(t, r, "Description"), rule.keyword)
                 /\ Cell(t, r, "Category") = Str(<<"U", "n", "c", "a", "t", "e", "g", "o", "r", "i", "z", "e", "d">>)],
             Str(rule.category))

\* one pass of the loop body: the rows whose description contains the
\* keyword get the rule's category, whatever they had
ApplyRule(t, rule) ==
    SetWhere(t, "Category",
             [r \in 1..NRows(t) |->
                 KeywordMask(Cell(t, r, "Description"), rule.keyword)],
             Str(rule.category))

\* the loop over category_mapping.items(), from rule i on
RECURSIVE ApplyRulesFrom(_, _)
ApplyRulesFrom(t, i) ==
    IF NRows(t) = 0 \/ i > Len(category_mapping) THEN t
    ELSE ApplyRulesFrom(ApplyRule(t, category_mapping[i]), i + 1)

\* the special rule for New Hampshire
ApplyNHRule(t) ==
    SetWhere(t, "Category",
             [r \in 1..NRows(t) |-> NHMask(Cell(t, r, "Description"))],
             Str(<<"L", "a", "w", " ", "S", "c", "h", "o", "o", "l">>))

\* self.data['Category'] = 'Uncategorized'
InitCategory(t) ==
    SetColumn(t, "Category", "object",
              [r \in 1..NRows(t) |-> Str(<<"U", "n", "c", "a", "t", "e", "g", "o", "r", "i", "z", "e", "d">>)])

\* AssignCategories as it would be with the New Hampshire rule ahead of the loop
AssignCategories_NHFirst(t) ==
    IF ~StrAccessorOK(t, "Description")
    THEN [raised |-> "AttributeError", data |-> t]
    ELSE [raised |-> "none", data |-> ApplyRulesFrom(ApplyNHRule(t), 1)]

\* the statements after the initialisation: [raised, data]
AssignCategories(t) ==
    IF ~StrAccessorOK(t, "Description")
    THEN [raised |-> "AttributeError", data |-> t]
    ELSE [raised |-> "none", data |-> ApplyNHRule(ApplyRulesFrom(t, 1))]

\* the result is [raised, data]
_categorize_transactions(t) == AssignCategories(InitCategory(t))

----------------------------------------------------------------------------
(* pd.read_csv *)

\* a CSV file: a header line and rows of text cells, or a file that cannot be
\* read (missing, empty, malformed)
RawFile(header, rows) == [readable |-> TRUE, header |-> header, rows |-> rows]
Unreadable == [readable |-> FALSE, header |-> <<>>, rows |-> <<>>]

\* cells read_csv takes for missing values (of its default na_values)
na_values == {<<>>, <<"N", "A">>, <<"N", "/", "A">>, <<"N", "a", "N">>, <<"n", "u", "l", "l">>}

IsDigit(c) == \E i \in 1..Len(Digits) : Digits[i] = c
DigitValue(c) == (CHOOSE i \in 1..Len(Digits) : Digits[i] = c) - 1

RECURSIVE ParseNat(_)
ParseNat(s) ==
    IF s = <<>> THEN 0
    ELSE 10 * ParseNat(SubSeq(s, 1, Len(s) - 1)) + DigitValue(s[Len(s)])

IsNatText(s) == Len(s) > 0 /\ \A i \in 1..Len(s) : IsDigit(s[i])
IsIntText(s) == IsNatText(s) \/ (Len(s) > 1 /\ s[1] = "-" /\ IsNatText(Tail(s)))
ParseInt(s) == IF s[1] = "-" THEN 0 - ParseNat(Tail(s)) ELSE ParseNat(s)

\* dtype inference for column i of a raw file
InferDtype(raw, i) ==
    IF raw.rows = <<>> THEN "object"
    ELSE IF \A r \in 1..Len(raw.rows) : IsIntText(raw.rows[r][i]) THEN "int64"
    ELSE IF \A r \in 1..Len(raw.rows) :
                raw.rows[r][i] \in na_values \/ IsIntText(raw.rows[r][i])
    THEN "float64"
    ELSE "object"

ReadCell(text, dtype) ==
    IF text \in na_values THEN NaN
    ELSE IF dtype = "object" THEN Str(text)
    ELSE Num(ParseInt(text))

ReadTyped(raw, dtypes) ==
    DataFrame(raw.header, dtypes,
              [r \in 1..Len(raw.rows) |->
                  [i \in 1..Len(raw.header) |->
                      ReadCell(raw.rows[r][i], dtypes[i])]])

\* for a readable file
read_csv(raw) ==
    ReadTyped(raw, Tuple([i \in 1..Len(raw.header) |-> InferDtype(raw, i)]))

----------------------------------------------------------------------------
(* _standardize_columns *)

Mapping(std, aliases) == [std |-> std, aliases |-> aliases]

column_mapping == <<
    Mapping("Date", <<"Date", "Transaction Date", "Posted Date">>),
    Mapping("Description", <<"Description", "Original Description">>),
    Mapping("Amount", <<"Amount", "Transaction Amount">>) >>

standard_columns == <<"Date", "Description", "Amount">>

\* RenameFirst as it would be without the break: the last of possible_cols
\* that is a column of t ends up renamed
RECURSIVE RenameFirst_NoBreak(_, _, _, _)
RenameFirst_NoBreak(t, std_col, possible_cols, j) ==
    IF j > Len(possible_cols) THEN t
    ELSE RenameFirst_NoBreak(
            IF HasCol(t, possible_cols[j]) THEN Rename(t, possible_cols[j], std_col)
            ELSE t,
            std_col, possible_cols, j + 1)

\* the inner loop with its break: the first of possible_cols, from j on, that
\* is a column of t is renamed
RECURSIVE RenameFirst(_, _, _, _)
RenameFirst(t, std_col, possible_cols, j) ==
    IF j > Len(possible_cols) THEN t
    ELSE IF HasCol(t, possible_cols[j]) THEN Rename(t, possible_cols[j], std_col)
    ELSE RenameFirst(t, std_col, possible_cols, j + 1)

RECURSIVE RenameFrom(_, _)
RenameFrom(t, i) ==
    IF i > Len(column_mapping) THEN t
    ELSE RenameFrom(RenameFirst(t, column_mapping[i].std,
                                column_mapping[i].aliases, 1), i + 1)

RECURSIVE EnsureFrom(_, _)
EnsureFrom(t, i) ==
    IF i > Len(standard_columns) THEN t
    ELSE EnsureFrom(
            IF HasCol(t, standard_columns[i]) THEN t
            ELSE SetColumn(t, standard_columns[i], "object",
                           [r \in 1..NRows(t) |-> NaN]),
            i + 1)

_standardize_columns(t) == EnsureFrom(RenameFrom(t, 1), 1)

----------------------------------------------------------------------------
(* load_financial_data *)

\* os.path.basename: the text after the last "/"
basename(path) ==
    LET slashes == {i \in 1..Len(path) : path[i] = "/"}
        last == IF slashes = {} THEN 0
                ELSE CHOOSE i \in slashes : \A j \in slashes : j <= i
    IN  SubSeq(path, last + 1, Len(path))

\* df['Source_File'] = os.path.basename(file_path)
StampSource(t, path) ==
    SetColumn(t, "Source_File", "object",
              [r \in 1..NRows(t) |-> Str(basename(path))])

\* the body of the try block for one readable file
LoadOne(path) == StampSource(_standardize_columns(read_csv(disk[path])), path)

\* all_data after the loop: the frames of the files that could be read
RECURSIVE AllData(_)
AllData(paths) ==
    IF paths = <<>> THEN <<>>
    ELSE IF disk[paths[Len(paths)]].readable
    THEN Append(AllData(SubSeq(paths, 1, Len(paths) - 1)),
                LoadOne(paths[Len(paths)]))
    ELSE AllData(SubSeq(paths, 1, Len(paths) - 1))

\* pd.concat(frames, ignore_index=True): the columns in order of first
\* appearance, a frame's missing column filled with NaN
RECURSIVE ConcatColumns(_)
ConcatColumns(frames) ==
    IF frames = <<>> THEN <<>>
    ELSE LET before == ConcatColumns(SubSeq(frames, 1, Len(frames) - 1))
             f == frames[Len(frames)]
         IN  before \o SelectSeq(f.columns,
                 LAMBDA c : ~\E i \in 1..Len(before) : before[i] = c)

NumericDtypes == {"int64", "float64"}

ConcatDtype(frames, c) ==
    LET have == {k \in 1..Len(frames) : HasCol(frames[k], c)}
    IN  IF \A k \in have : Dtype(frames[k], c) \in NumericDtypes
        THEN IF have = 1..Len(frames) /\ \A k \in have : Dtype(frames[k], c) = "int64"
             THEN "int64" ELSE "float64"
        ELSE "object"

RECURSIVE ConcatRows(_, _)
ConcatRows(frames, columns) ==
    IF frames = <<>> THEN <<>>
    ELSE LET f == frames[Len(frames)]
         IN  ConcatRows(SubSeq(frames, 1, Len(frames) - 1), columns) \o
             [r \in 1..NRows(f) |->
                 [i \in 1..Len(columns) |->
                     IF HasCol(f, columns[i]) THEN Cell(f, r, columns[i])
                     ELSE NaN]]

ConcatOnto(frames, columns) ==
    DataFrame(columns,
              [i \in 1..Len(columns) |-> ConcatDtype(frames, columns[i])],
              ConcatRows(frames, columns))

concat(frames) == ConcatOnto(frames, ConcatColumns(frames))

\* pd.to_datetime(errors='coerce') for one cell.  A timestamp is the number
\* yyyymmdd.  The texts on disk are ISO dates (yyyy-mm-dd) or texts no parser
\* accepts; a number is taken as nanoseconds since 1970-01-01.
IsLeap(y) == (y % 4 = 0 /\ y % 100 # 0) \/ y % 400 = 0
DaysInMonth(y, m) ==
    IF m = 2 THEN (IF IsLeap(y) THEN 29 ELSE 28)
    ELSE IF m \in {4, 6, 9, 11} THEN 30 ELSE 31

IsISODate(s) ==
    /\ Len(s) = 10
    /\ s[5] = "-" /\ s[8] = "-"
    /\ \A i \in {1, 2, 3, 4, 6, 7, 9, 10} : IsDigit(s[i])
    /\ ParseNat(SubSeq(s, 6, 7)) \in 1..12
    /\ ParseNat(SubSeq(s, 9, 10)) \in
           1..DaysInMonth(ParseNat(SubSeq(s, 1, 4)), ParseNat(SubSeq(s, 6, 7)))

to_datetime(cell) ==
    IF cell.t = "str" /\ IsISODate(cell.s)
    THEN Timestamp(ParseNat(SubSeq(cell.s, 1, 4)) * 10000
                   + ParseNat(SubSeq(cell.s, 6, 7)) * 100
                   + ParseNat(SubSeq(cell.s, 9, 10)))
    ELSE IF cell.t = "num" THEN Timestamp(19700101)
    ELSE NaN

\* sort_values('Date'): kind='quicksort', na_position='last'.  The rows come
\* out by ascending date, the rows without a date last, in their order before
\* the sort; quicksort gives rows of equal date no order.  The result is the
\* set of row orders a build can produce, as sequences of old row numbers.
RECURSIVE SortOrders(_, _)
SortOrders(t, left) ==
    IF left = {} THEN {<<>>}
    ELSE LET dated == {r \in left : Cell(t, r, "Date").t # "null"}
             first == IF dated # {}
                      THEN {r \in dated : \A q \in dated :
                               Cell(t, r, "Date").n <= Cell(t, q, "Date").n}
                      ELSE {CHOOSE r \in left : \A q \in left : r <= q}
         IN  UNION {{<<r>> \o rest : rest \in SortOrders(t, left \ {r})} : r \in first}

Reorder(t, order) ==
    DataFrame(t.columns, t.dtypes, [k \in 1..Len(order) |-> t.rows[order[k]]])

\* self.data['Date'] = pd.to_datetime(self.data['Date'], errors='coerce')
ConvertDate(t) ==
    SetColumn(t, "Date", "datetime64",
              [r \in 1..NRows(t) |-> to_datetime(Cell(t, r, "Date"))])

\* self.data after the concat and the to_datetime of all_data
DatedConcat(all_data) == ConvertDate(concat(all_data))

----------------------------------------------------------------------------
(* generate_tax_reports *)

\* the characters of the model in code point order
CodePoints ==
    <<" ", "$", "&", ",", "-", ".", "/", "0", "1", "2", "3", "4", "5", "6", "7", "8", "9", "A", "B", "C", "D", "E", "F", "G", "H", "I", "J", "K", "L", "M", "N", "O", "P", "Q", "R", "S", "T", "U", "V", "W", "X", "Y", "Z", "_", "a", "b", "c", "d", "e", "f", "g", "h", "i", "j", "k", "l", "m", "n", "o", "p", "q", "r", "s", "t", "u", "v", "w", "x", "y", "z">>
CodePoint(c) == CHOOSE i \in 1..Len(CodePoints) : CodePoints[i] = c

\* Python's < on str
RECURSIVE StrLess(_, _)
StrLess(a, b) ==
    IF b = <<>> THEN FALSE
    ELSE IF a = <<>> THEN TRUE
    ELSE IF a[1] = b[1] THEN StrLess(Tail(a), Tail(b))
    ELSE CodePoint(a[1]) < CodePoint(b[1])

\* the sorted group keys of a groupby
RECURSIVE SortedTexts(_)
SortedTexts(S) ==
    IF S = {} THEN <<>>
    ELSE LET least == CHOOSE a \in S : \A b \in S : a = b \/ StrLess(a, b)
         IN  <<least>> \o SortedTexts(S \ {least})

RECURSIVE SortedNums(_)
SortedNums(S) ==
    IF S = {} THEN <<>>
    ELSE LET least == CHOOSE a \in S : \A b \in S : a <= b
         IN  <<least>> \o SortedNums(S \ {least})

\* 'count' of Amount over the rows R: the cells that are not null
AmountCount(t, R) == Cardinality({r \in R : Cell(t, r, "Amount").t # "null"})

\* 'sum' of Amount over the rows R: null cells are skipped
RECURSIVE AmountSum(_, _)
AmountSum(t, R) ==
    IF R = {} THEN 0
    ELSE LET r == CHOOSE q \in R : TRUE
         IN  (IF Cell(t, r, "Amount").t = "num" THEN Cell(t, r, "Amount").n ELSE 0)
             + AmountSum(t, R \ {r})

Categories(t, R) == {Cell(t, r, "Category").s : r \in R}
Group(t, R, c) == {r \in R : Cell(t, r, "Category").s = c}

SummaryRows(t, keys) ==
    [k \in 1..Len(keys) |->
        [Category |-> keys[k],
         Transaction_Count |-> AmountCount(t, Group(t, 1..NRows(t), keys[k])),
         Total_Amount |-> AmountSum(t, Group(t, 1..NRows(t), keys[k]))]]

\* self.data.groupby('Category').agg({'Amount': ['count', 'sum']}).reset_index()
CategorySummary(t) ==
    Tuple(SummaryRows(t, SortedTexts(Categories(t, 1..NRows(t)))))

\* Date.dt.to_period('M') for one cell: a period is the number yyyymm
to_period(cell) == IF cell.t = "timestamp" THEN Period(cell.n \div 100) ELSE NaN

RowsOfMonth(t, m) ==
    {r \in 1..NRows(t) : Cell(t, r, "Month").t = "period" /\ Cell(t, r, "Month").n = m}

MonthGroups(t, m, R, keys) ==
    [k \in 1..Len(keys) |->
        [Month |-> m,
         Category |-> keys[k],
         Total_Amount |-> AmountSum(t, Group(t, R, keys[k])),
         Transaction_Count |-> AmountCount(t, Group(t, R, keys[k]))]]

\* the groups of one month, by category
MonthRows(t, m) ==
    Tuple(MonthGroups(t, m, RowsOfMonth(t, m),
                      SortedTexts(Categories(t, RowsOfMonth(t, m)))))

RECURSIVE MonthlyFrom(_, _, _)
MonthlyFrom(t, months, i) ==
    IF i > Len(months) THEN <<>>
    ELSE MonthRows(t, months[i]) \o MonthlyFrom(t, months, i + 1)

\* self.data.groupby(['Month', 'Category'])['Amount'].agg(...).reset_index():
\* the rows without a month belong to no group
MonthlyBreakdown(t) ==
    MonthlyFrom(t,
                SortedNums({Cell(t, r, "Month").n :
                               r \in {q \in 1..NRows(t) : Cell(t, q, "Month").t = "period"}}),
                1)

\* self.data[self.data['Category'] == 'Business']
BusinessExpenses(t) ==
    DataFrame(t.columns, t.dtypes,
              SelectSeq(t.rows,
                        LAMBDA row : row[ColIndex(t, "Category")] = Str(<<"B", "u", "s", "i", "n", "e", "s", "s">>)))

\* DataFrame.to_csv(index=False): the header line and the rows
to_csv(t) == [header |-> t.columns, rows |-> t.rows]

\* format(n, ',.2f') for a whole number n
RECURSIVE NatText(_)
NatText(n) ==
    IF n < 10 THEN <<Digits[n + 1]>>
    ELSE NatText(n \div 10) \o <<Digits[(n % 10) + 1]>>

RECURSIVE Grouped(_)
Grouped(digits) ==
    IF Len(digits) <= 3 THEN digits
    ELSE Grouped(SubSeq(digits, 1, Len(digits) - 3)) \o <<",">>
         \o SubSeq(digits, Len(digits) - 2, Len(digits))

FormatAmount(n) ==
    (IF n < 0 THEN <<"-">> ELSE <<>>)
    \o Grouped(NatText(IF n < 0 THEN 0 - n ELSE n)) \o <<".", "0", "0">>

\* Date.min() and Date.max(): NaT is skipped, and is the result of no dates
DateMin(t) ==
    LET dated == {r \in 1..NRows(t) : Cell(t, r, "Date").t = "timestamp"}
    IN  IF dated = {} THEN NaN
        ELSE Cell(t, CHOOSE r \in dated : \A q \in dated :
                         Cell(t, r, "Date").n <= Cell(t, q, "Date").n, "Date")

DateMax(t) ==
    LET dated == {r \in 1..NRows(t) : Cell(t, r, "Date").t = "timestamp"}
    IN  IF dated = {} THEN NaN
        ELSE Cell(t, CHOOSE r \in dated : \A q \in dated :
                         Cell(t, r, "Date").n >= Cell(t, q, "Date").n, "Date")

TaxSummary(t, category_summary) ==
    [date_min |-> DateMin(t),
     date_max |-> DateMax(t),
     total_transactions |-> NRows(t),
     breakdown |-> Tuple([k \in 1..Len(category_summary) |->
                       [Category |-> category_summary[k].Category,
                        Transaction_Count |-> category_summary[k].Transaction_Count,
                        Total_Amount |-> FormatAmount(category_summary[k].Total_Amount)]])]

ArtifactNames == {"detailed_transaction_log.csv", "category_summary.csv",
                  "monthly_breakdown.csv", "business_expenses.csv",
                  "tax_summary.txt"}

\* the folder os.makedirs leaves when nothing is written into it
EmptyFolder ==
    [files |-> {},
     detailed_transaction_log |-> to_csv(None),
     category_summary |-> <<>>,
     monthly_breakdown |-> <<>>,
     business_expenses |-> to_csv(None),
     tax_summary |-> [date_min |-> NaN, date_max |-> NaN,
                      total_transactions |-> 0, breakdown |-> <<>>]]

\* self.data['Month'] = self.data['Date'].dt.to_period('M')
MonthAdded(t) ==
    SetColumn(t, "Month", "period",
              [r \in 1..NRows(t) |-> to_period(Cell(t, r, "Date"))])

\* the five files: t is self.data as the call finds it, with_month as it is
\* from the monthly breakdown on
WrittenFolder(t, with_month, category_summary) ==
    [files |-> ArtifactNames,
     detailed_transaction_log |-> to_csv(t),
     category_summary |-> category_summary,
     monthly_breakdown |-> MonthlyBreakdown(with_month),
     business_expenses |-> to_csv(BusinessExpenses(with_month)),
     tax_summary |-> TaxSummary(with_month, category_summary)]

\* the folder of a call that ran to its end on the DataFrame t
ReportFolder(t) == WrittenFolder(t, MonthAdded(t), CategorySummary(t))

----------------------------------------------------------------------------
(* Bounds and inputs *)

MaxLoads == 1      \* calls of load_financial_data
MaxFiles == 2      \* paths in one call of load_financial_data
MaxRows == 2       \* rows of a file on disk
MaxReports == 2    \* calls of generate_tax_reports
MaxParts == 2      \* fragments in a description given to the categorizer
MaxCols == 3       \* columns of a frame given to the schema normalizer
MaxStdRows == 1    \* rows of a frame given to the schema normalizer

Paths == {<<"b", "a", "n", "k", "/", "a", ".", "c", "s", "v">>, <<"c", "a", "r", "d", "s", "/", "b", ".", "c", "s", "v">>, <<"c", "a", "r", "d", "s", "/", "c", ".", "c", "s", "v">>}

RECURSIVE SeqsUpTo(_, _)
SeqsUpTo(S, n) ==
    IF n = 0 THEN {<<>>}
    ELSE SeqsUpTo(S, n - 1) \cup
         {Append(q, x) : q \in {p \in SeqsUpTo(S, n - 1) : Len(p) = n - 1}, x \in S}

\* rows as exported: the text of the date, description, amount and memo
Sample(date, description, amount, memo) ==
    [date |-> date, description |-> description, amount |-> amount, memo |-> memo]

RowSamples == {
    Sample(<<"2", "0", "2", "4", "-", "0", "1", "-", "1", "5">>, <<"L", "u", "m", "i", "s", " ", "I", "n", "c", " ", "p", "a", "y", "m", "e", "n", "t">>, <<"1", "0", "0">>, <<"a">>),
    Sample(<<"2", "0", "2", "4", "-", "0", "1", "-", "1", "5">>, <<"C", "o", "f", "f", "e", "e", " ", "s", "h", "o", "p", " ", "N", "H">>, <<"5">>, <<"b">>),
    Sample(<<"2", "0", "2", "3", "-", "1", "2", "-", "3", "1">>, <<"n", "e", "t", "f", "l", "i", "x">>, <<>>, <<>>),
    Sample(<<"2", "0", "2", "4", "-", "0", "2", "-", "3", "0">>, <<>>, <<"-", "2", "0">>, <<"c">>),
    Sample(<<>>, <<"1", "2", "3">>, <<>>, <<"d">>) }

Headers == {
    <<"Date", "Description", "Amount">>,
    <<"Transaction Date", "Original Description", "Transaction Amount", "Memo">>,
    <<"Posted Date", "Description">>,
    <<"Date", "Amount">> }

FieldOf(sample, column) ==
    IF column \in {"Date", "Transaction Date", "Posted Date"} THEN sample.date
    ELSE IF column \in {"Description", "Original Description"} THEN sample.description
    ELSE IF column \in {"Amount", "Transaction Amount"} THEN sample.amount
    ELSE sample.memo

Export(header, samples) ==
    RawFile(header,
            [r \in 1..Len(samples) |->
                [i \in 1..Len(header) |-> FieldOf(samples[r], header[i])]])

Files ==
    {Unreadable} \cup
    {Export(h, q) : h \in Headers, q \in SeqsUpTo(RowSamples, MaxRows)}

SecondFiles == {
    Unreadable,
    Export(<<"Posted Date", "Description", "Amount">>,
           <<Sample(<<"2", "0", "2", "4", "-", "0", "1", "-", "1", "5">>, <<"P", "A", "Y", "R", "O", "L", "L", " ", "T", "R", "A", "N", "S", "F", "E", "R">>, <<"1", "5", "0", "0">>, <<>>),
             Sample(<<"s", "o", "o", "n">>, <<"L", "u", "m", "i", "s", " ", "I", "n", "c", " ", "p", "a", "y", "m", "e", "n", "t">>, <<>>, <<>>)>>) }

----------------------------------------------------------------------------
(* The calls *)

\* __init__
Init ==
    /\ disk \in {[p \in Paths |->
                     IF p = <<"b", "a", "n", "k", "/", "a", ".", "c", "s", "v">> THEN first
                     ELSE IF p = <<"c", "a", "r", "d", "s", "/", "b", ".", "c", "s", "v">> THEN second
                     ELSE Unreadable] :
                    first \in Files, second \in SecondFiles}
    /\ data = None
    /\ df = None
    /\ raised = "none"
    /\ last_call = "__init__"
    /\ file_paths = <<>>
    /\ pc = "idle"
    /\ loads = 0
    /\ outputs = <<>>

\* the outcome of _categorize_transactions is the outcome of the call
LoadCategorized(result) ==
    /\ data' = result.data
    /\ raised' = result.raised

\* the sort, in one of the row orders it can produce, and the categorization
LoadDated(dated) ==
    \E order \in SortOrders(dated, 1..NRows(dated)) :
        LoadCategorized(_categorize_transactions(Reorder(dated, order)))

\* the statements after the loop
LoadCombined(all_data) ==
    IF all_data = <<>>
    THEN data' = data /\ raised' = "none"
    ELSE LoadDated(DatedConcat(all_data))

load_financial_data(paths) ==
    /\ pc = "idle"
    /\ loads < MaxLoads
    /\ LoadCombined(AllData(paths))
    /\ loads' = loads + 1
    /\ last_call' = "load_financial_data"
    /\ file_paths' = paths
    /\ UNCHANGED <<disk, df, pc, outputs>>

Load == \E paths \in SeqsUpTo(DOMAIN disk, MaxFiles) : load_financial_data(paths)

generate_tax_reports ==
    /\ pc = "idle"
    /\ Len(outputs) < MaxReports
    /\ IF data.isNone
       THEN /\ outputs' = Append(outputs, EmptyFolder)
            /\ raised' = "AttributeError"
            /\ data' = data
       ELSE /\ outputs' = Append(outputs, ReportFolder(data))
            /\ raised' = "none"
            /\ data' = MonthAdded(data)
    /\ last_call' = "generate_tax_reports"
    /\ UNCHANGED <<disk, df, file_paths, pc, loads>>

Generate == generate_tax_reports

Next == Load \/ Generate

Spec == Init /\ [][Next]_vars

----------------------------------------------------------------------------
(* The categorizer on its own: load_financial_data has read one file and is *)
(* about to call _categorize_transactions                                   *)

Fragments == {<<"L", "u", "m", "i", "s">>, <<"L", "e", "g", "a", "l", " ", "E", "d", "u", "c", "a", "t", "i", "o", "n">>, <<"a", "l">>, <<"N", "H">>, <<"N", "e", "w", " ", "H", "a", "m", "p", "s", "h", "i", "r", "e">>,
              <<"n", "e", "t", "f", "l", "i", "x">>, <<"P", "a", "y", "r", "o", "l", "l">>, <<"T", "r", "a", "n", "s", "f", "e", "r">>, <<"W", "e", "s", "t", "l", "a", "w">>, <<"7">>, <<" ">>}

RECURSIVE Texts(_)
Texts(n) ==
    IF n = 0 THEN {<<>>}
    ELSE Texts(n - 1) \cup {a \o f : a \in Texts(n - 1), f \in Fragments}

SecondDescriptions == {<<>>, <<"P", "a", "y", "r", "o", "l", "l", " ", "t", "r", "a", "n", "s", "f", "e", "r">>}

StatementFile(first, second) ==
    RawFile(<<"Date", "Description", "Amount">>,
            << <<<<"2", "0", "2", "4", "-", "0", "3", "-", "0", "1">>, first, <<"4", "0">>>>, <<<<"2", "0", "2", "4", "-", "0", "3", "-", "0", "1">>, second, <<"6", "0">>>> >>)

\* load_financial_data(['bank/a.csv']) is entered
InitCategorize ==
    /\ disk \in {[p \in {<<"b", "a", "n", "k", "/", "a", ".", "c", "s", "v">>} |-> StatementFile(first, second)] :
                    first \in Texts(MaxParts), second \in SecondDescriptions}
    /\ data = None
    /\ df = None
    /\ raised = "none"
    /\ last_call = "load_financial_data"
    /\ file_paths = <<<<"b", "a", "n", "k", "/", "a", ".", "c", "s", "v">>>>
    /\ pc = "read"
    /\ loads = 1
    /\ outputs = <<>>

SortedData(dated) ==
    \E order \in SortOrders(dated, 1..NRows(dated)) : data' = Reorder(dated, order)

\* the loop, the concat, the to_datetime and the sort
CombineAndSort ==
    /\ pc = "read"
    /\ AllData(file_paths) # <<>>
    /\ SortedData(DatedConcat(AllData(file_paths)))
    /\ pc' = "categorize"
    /\ last_call' = "sort_values"
    /\ UNCHANGED <<disk, df, raised, file_paths, loads, outputs>>

\* the call of _categorize_transactions, which ends load_financial_data
CategorizeTransactions ==
    /\ pc = "categorize"
    /\ LoadCategorized(_categorize_transactions(data))
    /\ pc' = "idle"
    /\ last_call' = "_categorize_transactions"
    /\ UNCHANGED <<disk, df, file_paths, loads, outputs>>

NextCategorize == CombineAndSort \/ CategorizeTransactions \/ Generate

SpecCategorize == InitCategorize /\ [][NextCategorize]_vars

----------------------------------------------------------------------------
(* The schema normalizer on its own: load_financial_data has read one file  *)
(* and is about to call _standardize_columns                                *)

ColumnNames == {"Date", "Transaction Date", "Posted Date",
                "Description", "Original Description",
                "Amount", "Transaction Amount", "Memo"}

HeaderLines ==
    {h \in SeqsUpTo(ColumnNames, MaxCols) :
        /\ Len(h) >= 1
        /\ \A i, j \in 1..Len(h) : i # j => h[i] # h[j]}

\* a cell that tells its row and its column
CellText(r, i) == <<"r", Digits[r + 1], "c", Digits[i + 1]>>

TableFile(header, n) ==
    RawFile(header, [r \in 1..n |-> [i \in 1..Len(header) |-> CellText(r, i)]])

\* load_financial_data(['bank/a.csv']) is entered
InitStandardize ==
    /\ disk \in {[p \in {<<"b", "a", "n", "k", "/", "a", ".", "c", "s", "v">>} |-> TableFile(header, n)] :
                    header \in HeaderLines, n \in 0..MaxStdRows}
    /\ df = None
    /\ data = None
    /\ raised = "none"
    /\ last_call = "load_financial_data"
    /\ file_paths = <<<<"b", "a", "n", "k", "/", "a", ".", "c", "s", "v">>>>
    /\ pc = "read"
    /\ loads = 1
    /\ outputs = <<>>

ReadCsv ==
    /\ pc = "read"
    /\ disk[file_paths[1]].readable
    /\ df' = read_csv(disk[file_paths[1]])
    /\ pc' = "standardize"
    /\ last_call' = "read_csv"
    /\ UNCHANGED <<disk, data, raised, file_paths, loads, outputs>>

StandardizeColumns ==
    /\ pc = "standardize"
    /\ df' = _standardize_columns(df)
    /\ pc' = "stamp"
    /\ last_call' = "_standardize_columns"
    /\ UNCHANGED <<disk, data, raised, file_paths, loads, outputs>>

StampSourceFile ==
    /\ pc = "stamp"
    /\ df' = StampSource(df, file_paths[1])
    /\ pc' = "append"
    /\ UNCHANGED <<disk, data, raised, last_call, file_paths, loads, outputs>>

NextStandardize == ReadCsv \/ StandardizeColumns \/ StampSourceFile

SpecStandardize == InitStandardize /\ [][NextStandardize]_vars

----------------------------------------------------------------------------
(* Properties *)

Last(q) == q[Len(q)]
Written(folder) == folder.files = ArtifactNames

\* a cell of a written CSV file, by column name
CsvCell(csv, row, c) ==
    row[CHOOSE i \in 1..Len(csv.header) : csv.header[i] = c]

Unread(paths) == \A i \in 1..Len(paths) : ~disk[paths[i]].readable

RECURSIVE SumOver(_, _)
SumOver(f, S) ==
    IF S = {} THEN 0
    ELSE f[CHOOSE x \in S : TRUE] + SumOver(f, S \ {CHOOSE x \in S : TRUE})

\* C1: when every path given to load_financial_data fails to read (or there is
\* no path), the generate_tax_reports that follows raises nothing and writes
\* all five artifacts without a data row.
C1_ZeroFilesReported ==
    (last_call = "generate_tax_reports" /\ loads = 1 /\ Len(outputs) = 1
        /\ Unread(file_paths))
    => /\ raised = "none"
       /\ Written(outputs[1])
       /\ outputs[1].detailed_transaction_log.rows = <<>>
       /\ outputs[1].category_summary = <<>>
       /\ outputs[1].monthly_breakdown = <<>>
       /\ outputs[1].business_expenses.rows = <<>>
       /\ outputs[1].tax_summary.total_transactions = 0

\* the rows that the readable files of the call stamped with a base name hold
StampedRows(name) ==
    SumOver([i \in 1..Len(file_paths) |-> Len(disk[file_paths[i]].rows)],
            {i \in 1..Len(file_paths) :
                disk[file_paths[i]].readable /\ basename(file_paths[i]) = name})

\* C2: load_financial_data never aborts: the files that fail to read are
\* skipped, and the unified set holds exactly the rows of the files that were
\* read, each stamped with the base name of its file.
C2_LoadSkipsUnreadable ==
    (last_call = "load_financial_data" /\ loads = 1)
    => /\ raised = "none"
       /\ data.isNone <=> Unread(file_paths)
       /\ ~data.isNone =>
            /\ NRows(data) =
                   SumOver([i \in 1..Len(file_paths) |-> Len(disk[file_paths[i]].rows)],
                           {i \in 1..Len(file_paths) : disk[file_paths[i]].readable})
            /\ \A p \in DOMAIN disk :
                   Cardinality({r \in 1..NRows(data) :
                       Cell(data, r, "Source_File") = Str(basename(p))})
                   = StampedRows(basename(p))

Categorized == pc = "idle" /\ ~data.isNone /\ HasCol(data, "Category")

MatchesRule(text, i) == str_contains_nocase(text, category_mapping[i].keyword)

MentionsNH(text) ==
    \/ \E i \in 1..(Len(text) - 1) :
          upper_char(text[i]) = "N" /\ upper_char(text[i + 1]) = "H"
    \/ str_contains(str_upper(text), <<"N", "E", "W", " ", "H", "A", "M", "P", "S", "H", "I", "R", "E">>)

LatestRule(text) ==
    CHOOSE i \in 1..Len(category_mapping) :
        /\ MatchesRule(text, i)
        /\ \A j \in (i + 1)..Len(category_mapping) : ~MatchesRule(text, j)

\* C3: a transaction whose description has neither "NH" nor "NEW HAMPSHIRE"
\* in it and matches a keyword of the rule table has, after
\* _categorize_transactions, the category of the matching keyword that is
\* latest in the table.
C3_LatestKeywordWins ==
    Categorized =>
        \A r \in 1..NRows(data) :
            (/\ Cell(data, r, "Description").t = "str"
             /\ ~MentionsNH(Cell(data, r, "Description").s)
             /\ \E i \in 1..Len(category_mapping) :
                    MatchesRule(Cell(data, r, "Description").s, i))
            => Cell(data, r, "Category") =
                   Str(category_mapping[LatestRule(Cell(data, r, "Description").s)].category)

\* a categorized row without NH whose description matches two rules of
\* different categories
C3_Witness ==
    /\ Categorized
    /\ \E r \in 1..NRows(data) :
          /\ Cell(data, r, "Description").t = "str"
          /\ ~MentionsNH(Cell(data, r, "Description").s)
          /\ \E i, j \in 1..Len(category_mapping) :
                /\ i < j
                /\ MatchesRule(Cell(data, r, "Description").s, i)
                /\ MatchesRule(Cell(data, r, "Description").s, j)
                /\ category_mapping[i].category # category_mapping[j].category
                /\ j = LatestRule(Cell(data, r, "Description").s)
                /\ Cell(data, r, "Category") = Str(category_mapping[j].category)

\* C4: a transaction whose description has "NH" or "NEW HAMPSHIRE" in it, in
\* any letter case, is in category "Law School" after
\* _categorize_transactions and stays there, whatever keyword rules matched.
C4_NHOverrides ==
    Categorized =>
        \A r \in 1..NRows(data) :
            (/\ Cell(data, r, "Description").t = "str"
             /\ MentionsNH(Cell(data, r, "Description").s))
            => Cell(data, r, "Category") = Str(<<"L", "a", "w", " ", "S", "c", "h", "o", "o", "l">>)

\* a New Hampshire row that also matches a rule of another category, after a
\* report was generated
C4_Witness ==
    /\ Categorized
    /\ Len(outputs) > 0
    /\ \E r \in 1..NRows(data) :
          /\ Cell(data, r, "Description").t = "str"
          /\ MentionsNH(Cell(data, r, "Description").s)
          /\ \E i \in 1..Len(category_mapping) :
                /\ MatchesRule(Cell(data, r, "Description").s, i)
                /\ category_mapping[i].category # <<"L", "a", "w", " ", "S", "c", "h", "o", "o", "l">>
          /\ Cell(data, r, "Category") = Str(<<"L", "a", "w", " ", "S", "c", "h", "o", "o", "l">>)

\* C5: after a load of at least one file every transaction has one non-null
\* category, a transaction without a description is "Uncategorized", and
\* categorization fails on no input.
C5_CategorizationTotal ==
    (pc = "idle" /\ ~data.isNone)
    => /\ raised = "none"
       /\ HasCol(data, "Category")
       /\ \A r \in 1..NRows(data) :
             /\ Cell(data, r, "Category").t = "str"
             /\ Cell(data, r, "Description").t = "null"
                    => Cell(data, r, "Category") = Str(<<"U", "n", "c", "a", "t", "e", "g", "o", "r", "i", "z", "e", "d">>)

Standardized == pc \in {"stamp", "append"}

PresentAliases(t, m) ==
    {j \in 1..Len(m.aliases) : HasCol(t, m.aliases[j])}

FirstAlias(t, m) ==
    m.aliases[CHOOSE j \in PresentAliases(t, m) : \A k \in PresentAliases(t, m) : j <= k]

AliasNames == UNION {{m.aliases[j] : j \in 1..Len(m.aliases)} :
                        m \in {column_mapping[i] : i \in 1..Len(column_mapping)}}

C6_Normalized(before, after) ==
    /\ NRows(after) = NRows(before)
    /\ \A i \in 1..Len(column_mapping) :
          /\ HasCol(after, column_mapping[i].std)
          /\ IF PresentAliases(before, column_mapping[i]) # {}
             THEN /\ Column(after, column_mapping[i].std)
                        = Column(before, FirstAlias(before, column_mapping[i]))
                  /\ \A j \in PresentAliases(before, column_mapping[i]) :
                        column_mapping[i].aliases[j] # FirstAlias(before, column_mapping[i])
                        => /\ HasCol(after, column_mapping[i].aliases[j])
                           /\ Column(after, column_mapping[i].aliases[j])
                                  = Column(before, column_mapping[i].aliases[j])
             ELSE \A r \in 1..NRows(after) :
                      Cell(after, r, column_mapping[i].std) = NaN
    /\ \A k \in 1..Len(before.columns) :
          before.columns[k] \notin AliasNames
          => /\ HasCol(after, before.columns[k])
             /\ Column(after, before.columns[k]) = Column(before, before.columns[k])
    /\ \A k, l \in 1..Len(after.columns) : k # l => after.columns[k] # after.columns[l]

\* C6: _standardize_columns yields a table with Date, Description and Amount:
\* the first alias present, in the order of the alias list, supplies the
\* values of its canonical field, every other alias present passes through
\* untouched, a canonical field without an alias is null in every row, and no
\* error is raised.
C6_FirstAliasRenamed ==
    Standardized =>
        /\ raised = "none"
        /\ C6_Normalized(read_csv(disk[file_paths[1]]), df)

\* a frame with rows in which two aliases of one canonical field are present,
\* the later alias ahead of the earlier in the header, and another canonical
\* field has no alias
C6_TwoAliases(before) ==
    /\ NRows(before) > 0
    /\ \E i, k \in 1..Len(column_mapping) :
          /\ Cardinality(PresentAliases(before, column_mapping[i])) >= 2
          /\ ColIndex(before, FirstAlias(before, column_mapping[i])) > 1
          /\ PresentAliases(before, column_mapping[k]) = {}

C6_Witness ==
    /\ Standardized
    /\ C6_TwoAliases(read_csv(disk[file_paths[1]]))
    /\ C6_Normalized(read_csv(disk[file_paths[1]]), df)

CsvCategories(csv) == {CsvCell(csv, csv.rows[r], "Category").s : r \in 1..Len(csv.rows)}

\* C7: the Transaction_Count of the category summary adds up to the number of
\* transactions, rows without an amount included, and a category has a
\* summary row exactly if a transaction has that category.
C7_CountsAddUp ==
    \A k \in 1..Len(outputs) :
        Written(outputs[k])
        => /\ SumOver([i \in 1..Len(outputs[k].category_summary) |->
                          outputs[k].category_summary[i].Transaction_Count],
                      1..Len(outputs[k].category_summary))
                 = Len(outputs[k].detailed_transaction_log.rows)
           /\ {outputs[k].category_summary[i].Category :
                  i \in 1..Len(outputs[k].category_summary)}
                 = CsvCategories(outputs[k].detailed_transaction_log)

BusinessRowsOf(csv) ==
    SelectSeq(csv.rows, LAMBDA row : CsvCell(csv, row, "Category") = Str(<<"B", "u", "s", "i", "n", "e", "s", "s">>))

\* C8: within one run the business-expense detail is the detailed log's rows
\* of category "Business": the same rows, in the same order, with the same
\* fields.
C8_BusinessDetailIsSubset ==
    \A k \in 1..Len(outputs) :
        Written(outputs[k])
        => /\ outputs[k].business_expenses.header
                 = outputs[k].detailed_transaction_log.header
           /\ outputs[k].business_expenses.rows
                 = BusinessRowsOf(outputs[k].detailed_transaction_log)

\* C9: generate_tax_reports only reads self.data: the call leaves its rows,
\* their order and its fields as they were, and a second call right after
\* writes the same detailed log as the first.
C9_ReportsOnlyRead ==
    [][(last_call' = "generate_tax_reports" /\ Len(outputs') = Len(outputs) + 1)
        => /\ data' = data
           /\ (last_call = "generate_tax_reports" /\ Written(Last(outputs)))
                  => Last(outputs').detailed_transaction_log
                         = Last(outputs).detailed_transaction_log]_vars

\* the rows of t by ascending date, the rows without a date last, rows of
\* equal date in the order they have in t
StableKey(t, r) ==
    (IF Cell(t, r, "Date").t = "null" THEN 99999999 ELSE Cell(t, r, "Date").n)
        * (NRows(t) + 1) + r

StableOrder(t, keys) ==
    [k \in 1..NRows(t) |-> t.rows[keys[k] % (NRows(t) + 1)]]

StableSorted(t) ==
    StableOrder(t, SortedNums({StableKey(t, r) : r \in 1..NRows(t)}))

KeepsStableOrder(t, before) ==
    [r \in 1..NRows(t) |-> SubSeq(t.rows[r], 1, Len(before.columns))]
        = StableSorted(before)

\* C10: after load_financial_data the unified set is in ascending date order,
\* the rows without a date behind all others, rows of equal date in their
\* order of concatenation, and neither the categorization nor the report
\* generation reorders it.
C10_StableDateOrder ==
    (pc = "idle" /\ loads = 1 /\ ~data.isNone)
    => KeepsStableOrder(data, DatedConcat(AllData(file_paths)))
====
